---- MODULE Spec2Model ----
(***************************************************************************)
(* Model of src/main.py: a sequential crawler.  main calls                 *)
(* scrape_multiple_categories, which calls scrape_category for every       *)
(* registered key, which fetches listing pages, extracts product URLs and  *)
(* calls scrape_jumia_reviews for each of them; the accumulated rows are   *)
(* written once by save_reviews_to_csv.  The web server is the             *)
(* environment: every requests.get draws its outcome nondeterministically. *)
(*                                                                         *)
(* Texts are sequences of words (the empty text is << >>), so that         *)
(* str.split and the "by " prefix test have something to compute on.       *)
(* URLs are records of the components urlparse produces.                   *)
(***************************************************************************)
EXTENDS Integers, Sequences, FiniteSets, TLC

(* ---------------------------- bounds ----------------------------------- *)

\* largest --category-pages tried
MaxCategoryPages == 3
\* largest --review-pages tried
MaxReviewPages == 3
\* number of responses per run that may carry extractable content; once it
\* is used up the server answers with empty documents or fails
MaxContentPages == 3

(* ---------------------------- helpers ---------------------------------- *)

RECURSIVE Flatten(_)
\* list.extend applied for every element of a sequence of lists
Flatten(ss) == IF ss = << >> THEN << >> ELSE Head(ss) \o Flatten(Tail(ss))

Range(s) == {s[i] : i \in DOMAIN s}

(* ---------------------------- URLs ------------------------------------- *)

Url(scheme, netloc, path, query, fragment) ==
    [scheme |-> scheme, netloc |-> netloc, path |-> path,
     query |-> query, fragment |-> fragment]

Konga(path) == Url("https", "www.konga.com", path, "", "")

CATEGORY_URLS ==
    [k \in {"electronics", "home_office", "health_beauty_personal_care",
            "phones_tablets", "fashion"} |->
        CASE k = "electronics" -> Konga("/category/electronics-5261")
          [] k = "home_office" -> Konga("/category/home-kitchen-602")
          [] k = "health_beauty_personal_care" ->
                 Konga("/category/beauty-health-personal-care-4")
          [] k = "phones_tablets" -> Konga("/category/phones-tablets-5294")
          [] k = "fashion" -> Konga("/category/konga-fashion-1259")]

normalize_url(url) == [url EXCEPT !.query = "", !.fragment = ""]

\* urllib.parse.urljoin for the reference forms the listing pages use:
\* absolute ("https://host/p"), network-path ("//host/p"), rooted ("/p")
\* and path-less ("?q", "#f") references.
urljoin(base, href) ==
    IF href.scheme # "" THEN href
    ELSE IF href.netloc # "" THEN [href EXCEPT !.scheme = base.scheme]
    ELSE IF href.path = ""
         THEN [base EXCEPT !.query = IF href.query # "" THEN href.query
                                     ELSE base.query,
                           !.fragment = href.fragment]
    ELSE [href EXCEPT !.scheme = base.scheme, !.netloc = base.netloc]

(* ---------------------------- documents -------------------------------- *)

\* A review page is the sequence of its candidate blocks in document order.
\* primary: the block matches "article.-review, div.-review, article.review,
\* div.review"; fallback: it matches "section.card.aim article".  h3, p,
\* stars and meta list the matching sub-elements (meta: the spans of each
\* matching div), as select returns them.
Block(primary, fallback, h3, p, stars, meta) ==
    [primary |-> primary, fallback |-> fallback, h3 |-> h3, p |-> p,
     stars |-> stars, meta |-> meta]

\* An anchor of a listing page.  core: it matches "a.core"; article: it
\* matches "article a"; has_href: the attribute is present.
Anchor(core, article, has_href, href) ==
    [core |-> core, article |-> article, has_href |-> has_href, href |-> href]

EmptyRef == Url("", "", "", "", "")

\* str.lower on the words the pages use
Lower(w) == IF w \in {"By", "BY", "by"} THEN "by" ELSE w

\* element.select_one(...).get_text(strip=True), "" when there is no match
FirstText(els) == IF els = << >> THEN << >> ELSE els[1]

(* ---------------------------- parse_reviews ---------------------------- *)

\* lines 62, 80-85: the first whitespace-separated token of the stars text
Rating(block) ==
    LET txt == FirstText(block.stars)
    IN  IF block.stars # << >> /\ txt # << >> THEN <<txt[1]>> ELSE << >>

\* lines 63-75
MetaSpans(block) == IF block.meta = << >> THEN << >> ELSE block.meta[1]

Date(block) ==
    LET spans == MetaSpans(block)
    IN  IF Len(spans) > 0 THEN spans[1] ELSE << >>

Author(block) ==
    LET spans == MetaSpans(block)
        author_text == spans[2]
    IN  IF Len(spans) > 1
        THEN IF Len(author_text) > 1 /\ Lower(author_text[1]) = "by"
             THEN Tail(author_text)
             ELSE author_text
        ELSE << >>

ReviewOf(block) ==
    [title |-> FirstText(block.h3), rating |-> Rating(block),
     body |-> FirstText(block.p), author |-> Author(block),
     date |-> Date(block)]

\* lines 51-53
ReviewBlocks(html) ==
    LET primary == SelectSeq(html, LAMBDA b : b.primary)
    IN  IF primary = << >> THEN SelectSeq(html, LAMBDA b : b.fallback)
        ELSE primary

RECURSIVE ReviewsOf(_)
\* lines 55-98: blocks with neither title nor body are skipped
ReviewsOf(blocks) ==
    IF blocks = << >> THEN << >>
    ELSE LET r == ReviewOf(Head(blocks))
         IN  IF r.body = << >> /\ r.title = << >>
             THEN ReviewsOf(Tail(blocks))
             ELSE <<r>> \o ReviewsOf(Tail(blocks))

parse_reviews(html) == ReviewsOf(ReviewBlocks(html))

(* ---------------------- parse_category_product_urls -------------------- *)

\* lines 124-126
ProductLinks(html) ==
    LET core == SelectSeq(html, LAMBDA a : a.core)
    IN  IF core = << >> THEN SelectSeq(html, LAMBDA a : a.article) ELSE core

RECURSIVE LinkUrls(_, _)
\* lines 129-134
LinkUrls(links, base) ==
    IF links = << >> THEN << >>
    ELSE LET a == Head(links)
         IN  IF ~a.has_href \/ a.href = EmptyRef
             THEN LinkUrls(Tail(links), base)
             ELSE <<normalize_url(urljoin(base, a.href))>>
                  \o LinkUrls(Tail(links), base)

RECURSIVE DictFromKeysLast(_)
\* a variant that keeps the last occurrence of every key
DictFromKeysLast(keys) ==
    IF keys = << >> THEN << >>
    ELSE IF Head(keys) \in Range(Tail(keys))
         THEN DictFromKeysLast(Tail(keys))
         ELSE <<Head(keys)>> \o DictFromKeysLast(Tail(keys))

RECURSIVE DictFromKeys(_)
\* list(dict.fromkeys(urls)): the first occurrence of every key, in order
DictFromKeys(keys) ==
    IF keys = << >> THEN << >>
    ELSE LET rest == DictFromKeys(Tail(keys))
         IN  <<Head(keys)>> \o SelectSeq(rest, LAMBDA k : k # Head(keys))

parse_category_product_urls(html, category_url) ==
    DictFromKeys(LinkUrls(ProductLinks(html), category_url))

(* ---------------------------- the server ------------------------------- *)

P1 == Konga("/product/phone-1")
P2 == Konga("/product/radio-2")

\* listing pages that yield no product URL
EmptyListings ==
    { << Anchor(TRUE, FALSE, FALSE, EmptyRef),
         Anchor(TRUE, TRUE, TRUE, EmptyRef) >> }

\* listing pages that yield product URLs
ContentListings ==
    { \* "a.core" anchors: P1, no href, P2, P1 again; "article a" not used
      << Anchor(TRUE, FALSE, TRUE, Url("", "", "/product/phone-1", "ref=home", "")),
         Anchor(TRUE, FALSE, FALSE, EmptyRef),
         Anchor(TRUE, TRUE, TRUE, Url("https", "www.konga.com", "/product/radio-2", "", "")),
         Anchor(FALSE, TRUE, TRUE, Url("", "", "/product/other-3", "", "")),
         Anchor(TRUE, FALSE, TRUE, Url("", "", "/product/phone-1", "", "reviews")) >>,
      \* no "a.core" anchor: the "article a" anchors are used
      << Anchor(FALSE, TRUE, TRUE, Url("", "www.konga.com", "/product/radio-2", "page=3", "top")),
         Anchor(FALSE, TRUE, TRUE, EmptyRef),
         Anchor(FALSE, FALSE, TRUE, Url("", "", "/product/phone-1", "", "")),
         Anchor(FALSE, TRUE, TRUE, Url("", "", "/product/radio-2", "", "")) >> }

\* review pages that yield no review
EmptyReviewPages ==
    { << Block(TRUE, FALSE, << >>, << >>, << <<"5", "out", "of", "5">> >>,
               << << <<"01-01-2024">>, <<"by", "Nobody">> >> >>) >> }

\* review pages that yield reviews
ContentReviewPages ==
    { \* one primary block; the fallback block is not used
      << Block(TRUE, FALSE, << <<"Great", "phone">> >>,
               << <<"Works", "well">>, <<"Second", "paragraph">> >>,
               << <<"4.5", "out", "of", "5">> >>,
               << << <<"01-02-2024">>, <<"By", "Jane", "Doe">> >> >>),
         Block(FALSE, TRUE, << <<"Ignored">> >>, << >>, << >>, << >>) >>,
      \* fallback blocks: body only, nothing (skipped), title only
      << Block(FALSE, TRUE, << >>, << <<"Okay">> >>, << >>,
               << << <<"03-04-2024">> >> >>),
         Block(FALSE, TRUE, << >>, << >>, << <<"1">> >>, << >>),
         Block(FALSE, TRUE, << <<"Bad">> >>, << >>, << << >> >>,
               << << <<"05-06-2024">>, <<"Jane", "Doe">> >> >>) >> }

NoResponse == [kind |-> "none", status |-> 0, text |-> << >>]

\* What requests.get can come back with: a transport failure, or a final
\* response with a status and a body.  Only a 200 response carries a
\* document; 304 Not Modified, 404 and 503 come with an empty body.
Outcomes(documents) ==
    {[kind |-> "transport", status |-> 0, text |-> << >>]}
    \cup {[kind |-> "response", status |-> 200, text |-> d] : d \in documents}
    \cup {[kind |-> "response", status |-> s, text |-> << >>] :
              s \in {304, 404, 503}}

(* ---------------------------- state ------------------------------------ *)

VARIABLES
    categories, category_pages, review_pages, delay_seconds, \* args
    file0,          \* the output path as save_reviews_to_csv finds it
    file,           \* the output path
    stdout,         \* lines printed
    pc, stack, exc, \* control: position, call stack, exception in flight
    reviews,        \* main
    key_idx, multi_rows,                                \* scrape_multiple_categories
    cat_page, cat_html, product_urls, prod_idx, cat_rows, \* scrape_category
    base_url, rev_page, rev_html, page_reviews, all_reviews, \* scrape_jumia_reviews
    response,       \* fetch_page
    calls,          \* fetch_page calls so far
    requests,       \* requests.get calls so far
    content,        \* responses with extractable content so far
    cat_fetched,    \* listing page numbers fetched by the current scrape_category
    cat_pages,      \* what each of them yielded
    crawls,         \* product crawls returned to the current scrape_category
    rev_fetched,    \* page numbers fetched by the current scrape_jumia_reviews
    rev_pages,      \* what each of them yielded
    returned        \* scrape_category calls returned so far

params == <<categories, category_pages, review_pages, delay_seconds>>
args == <<params, file0>>
main_vars == <<reviews, stdout, file>>
multi_vars == <<key_idx, multi_rows>>
cat_vars == <<cat_page, cat_html, product_urls, prod_idx, cat_rows>>
rev_vars == <<base_url, rev_page, rev_html, page_reviews, all_reviews>>
net_vars == <<response, calls, requests, content>>
cat_log == <<cat_fetched, cat_pages, crawls>>
rev_log == <<rev_fetched, rev_pages>>

vars == <<args, main_vars, multi_vars, cat_vars, rev_vars, net_vars,
          cat_log, rev_log, returned, pc, stack, exc>>

\* the --categories lists tried; "toys" is not a registered key
KeyLists ==
    { << >>, <<"toys">>, <<"electronics">>, <<"toys", "fashion">>,
      <<"fashion", "electronics">>, <<"electronics", "toys", "fashion">> }

\* The output path: whether it exists, its rows, and how often this run has
\* opened it for writing.  Nothing reads or writes it before line 200, so
\* what the run finds there is drawn when save_reviews_to_csv is called.
NoFile == [exists |-> FALSE, rows |-> << >>, opens |-> 0]
OldFile == [exists |-> TRUE, rows |-> << <<"stale">> >>, opens |-> 0]

Init ==
    /\ categories \in KeyLists
    /\ category_pages \in 0..MaxCategoryPages
    /\ review_pages \in 0..MaxReviewPages
    /\ delay_seconds \in {0, 1}
    /\ file0 = NoFile
    /\ file = file0
    /\ stdout = << >>
    /\ pc = "main" /\ stack = <<"main">> /\ exc = "none"
    /\ reviews = << >>
    /\ key_idx = 1 /\ multi_rows = << >>
    /\ cat_page = 1 /\ cat_html = << >> /\ product_urls = << >>
    /\ prod_idx = 1 /\ cat_rows = << >>
    /\ base_url = EmptyRef /\ rev_page = 1 /\ rev_html = << >>
    /\ page_reviews = << >> /\ all_reviews = << >>
    /\ response = NoResponse /\ calls = 0 /\ requests = 0 /\ content = 0
    /\ cat_fetched = << >> /\ cat_pages = << >> /\ crawls = << >>
    /\ rev_fetched = << >> /\ rev_pages = << >>
    /\ returned = << >>

Front(s) == SubSeq(s, 1, Len(s) - 1)
Top(s) == s[Len(s)]

(* ---------------------------- main ------------------------------------- *)

fieldnames ==
    <<"category", "product_url", "title", "rating", "body", "author", "date">>

\* csv.DictWriter: the values of a row in fieldnames order
CsvRow(row) == [i \in 1..Len(fieldnames) |-> row[fieldnames[i]]]

\* a variant that opens the file before looking at the reviews
SaveOpensFirst(rows, f) ==
    [exists |-> TRUE,
     rows |-> IF rows = << >> THEN << >>
              ELSE <<fieldnames>> \o [i \in 1..Len(rows) |-> CsvRow(rows[i])],
     opens |-> f.opens + 1]

\* lines 174-181: the output path after save_reviews_to_csv(rows, path),
\* f being the path before
save_reviews_to_csv(rows, f) ==
    IF rows = << >> THEN f
    ELSE [exists |-> TRUE,
          rows |-> <<fieldnames>> \o [i \in 1..Len(rows) |-> CsvRow(rows[i])],
          opens |-> f.opens + 1]

\* line 193: main calls scrape_multiple_categories
MainCall ==
    /\ pc = "main"
    /\ stack' = Append(stack, "scrape_multiple_categories")
    /\ key_idx' = 1 /\ multi_rows' = << >>
    /\ pc' = "multi_loop"
    /\ UNCHANGED <<args, main_vars, cat_vars, rev_vars, net_vars, cat_log,
                   rev_log, returned, exc>>

\* line 199
PrintCount ==
    /\ pc = "print_count"
    /\ stdout' = Append(stdout, <<"Fetched", Len(reviews)>>)
    /\ pc' = "save"
    /\ UNCHANGED <<args, reviews, file, multi_vars, cat_vars, rev_vars,
                   net_vars, cat_log, rev_log, returned, stack, exc>>

\* line 200
Save ==
    /\ pc = "save"
    /\ \E f \in {NoFile, OldFile} :
        /\ file0' = f
        /\ file' = save_reviews_to_csv(reviews, f)
    /\ pc' = "print_saved"
    /\ UNCHANGED <<params, reviews, stdout, multi_vars, cat_vars, rev_vars,
                   net_vars, cat_log, rev_log, returned, stack, exc>>

\* line 201, and main returns
PrintSaved ==
    /\ pc = "print_saved"
    /\ stdout' = Append(stdout, <<"Saved", 0>>)
    /\ stack' = Front(stack)
    /\ pc' = "done"
    /\ UNCHANGED <<args, reviews, file, multi_vars, cat_vars, rev_vars,
                   net_vars, cat_log, rev_log, returned, exc>>

(* ---------------------- scrape_multiple_categories --------------------- *)

\* a variant that leaves the loop at the first unknown key
MultiSkipBreaks ==
    /\ pc = "multi_loop"
    /\ key_idx <= Len(categories)
    /\ categories[key_idx] \notin DOMAIN CATEGORY_URLS
    /\ key_idx' = Len(categories) + 1
    /\ UNCHANGED <<args, main_vars, multi_rows, cat_vars, rev_vars, net_vars,
                   cat_log, rev_log, returned, pc, stack, exc>>

\* lines 166-168: a key that is not registered is passed over
MultiSkip ==
    /\ pc = "multi_loop"
    /\ key_idx <= Len(categories)
    /\ categories[key_idx] \notin DOMAIN CATEGORY_URLS
    /\ key_idx' = key_idx + 1
    /\ UNCHANGED <<args, main_vars, multi_rows, cat_vars, rev_vars, net_vars,
                   cat_log, rev_log, returned, pc, stack, exc>>

\* lines 166-169, 140-141: a registered key: scrape_category is called
MultiCall ==
    /\ pc = "multi_loop"
    /\ key_idx <= Len(categories)
    /\ categories[key_idx] \in DOMAIN CATEGORY_URLS
    /\ stack' = Append(stack, "scrape_category")
    /\ cat_page' = 1 /\ cat_html' = << >> /\ product_urls' = << >>
    /\ prod_idx' = 1 /\ cat_rows' = << >>
    /\ cat_fetched' = << >> /\ cat_pages' = << >> /\ crawls' = << >>
    /\ pc' = "cat_loop"
    /\ UNCHANGED <<args, main_vars, multi_vars, rev_vars, net_vars, rev_log,
                   returned, exc>>

\* lines 166, 171, 193: the keys are used up; the rows go back to main
MultiReturn ==
    /\ pc = "multi_loop"
    /\ key_idx > Len(categories)
    /\ reviews' = multi_rows
    /\ stack' = Front(stack)
    /\ pc' = "print_count"
    /\ UNCHANGED <<args, stdout, file, multi_vars, cat_vars, rev_vars,
                   net_vars, cat_log, rev_log, returned, exc>>

(* ---------------------------- fetch_page ------------------------------- *)

\* a variant that lets client errors through
RaisesOnServerErrorOnly(r) == r.status >= 500 /\ r.status < 600

\* line 37: Response.raise_for_status raises for 4xx and 5xx
raise_for_status(r) == r.status >= 400 /\ r.status < 600

\* lines 35-38: fetch_page, given what requests.get comes back with: the
\* exception it raises, or "none" and the text it returns
fetch_page(o) ==
    IF o.kind = "transport" THEN [raises |-> "ConnectionError", text |-> << >>]
    ELSE IF raise_for_status(o) THEN [raises |-> "HTTPError", text |-> << >>]
    ELSE [raises |-> "none", text |-> o.text]

\* the documents the server may answer a request with
Documents(empty, full) ==
    empty \cup (IF content < MaxContentPages THEN full ELSE {})

\* a variant in which scrape_multiple_categories catches the exception of a
\* category and goes on with the next key
PropagateCaught ==
    /\ pc = "raising"
    /\ stack' = <<"main", "scrape_multiple_categories">>
    /\ exc' = "none"
    /\ key_idx' = key_idx + 1
    /\ pc' = "multi_loop"
    /\ UNCHANGED <<args, main_vars, multi_rows, cat_vars, rev_vars, net_vars,
                   cat_log, rev_log, returned>>

\* no function has an except clause: the exception leaves fetch_page and
\* every caller up to main, and the process ends with a traceback
Propagate ==
    /\ pc = "raising"
    /\ stack' = << >>
    /\ pc' = "crashed"
    /\ UNCHANGED <<args, main_vars, multi_vars, cat_vars, rev_vars, net_vars,
                   cat_log, rev_log, returned, exc>>

(* ---------------------------- scrape_category -------------------------- *)

category_key == categories[key_idx]
category_url == CATEGORY_URLS[category_key]
product_url == product_urls[prod_idx]

\* a variant that goes on to the next listing page
NoProductsIgnored(urls) == FALSE

\* line 147: "if not product_urls"
NoProducts(urls) == urls = << >>

\* a variant that goes on to the next review page
NoReviewsIgnored(page) == FALSE

\* line 111: "if not page_reviews"
NoReviews(page) == page = << >>

\* a variant that adds the two columns but leaves them empty
TagRowUntagged(r, key, url) ==
    [f \in DOMAIN r \cup {"category", "product_url"} |->
        IF f = "category" THEN "" ELSE IF f = "product_url" THEN EmptyRef
        ELSE r[f]]

\* lines 153-155
TagRow(r, key, url) ==
    [f \in DOMAIN r \cup {"category", "product_url"} |->
        IF f = "category" THEN key ELSE IF f = "product_url" THEN url
        ELSE r[f]]

\* lines 143-145: one more listing page is fetched
CatFetch ==
    /\ pc = "cat_loop"
    /\ cat_page <= category_pages
    /\ \E o \in Outcomes(Documents(EmptyListings, ContentListings)) :
        /\ response' = o
        /\ calls' = calls + 1
        /\ requests' = requests + 1
        /\ content' = IF o.text \in ContentListings THEN content + 1
                      ELSE content
        /\ exc' = fetch_page(o).raises
        /\ IF exc' # "none"
           THEN /\ stack' = Append(stack, "fetch_page")
                /\ pc' = "raising"
                /\ cat_html' = cat_html
           ELSE /\ stack' = stack
                /\ pc' = "cat_fetched"
                /\ cat_html' = fetch_page(o).text
    /\ cat_fetched' = Append(cat_fetched, cat_page)
    /\ UNCHANGED <<args, main_vars, multi_vars, cat_page, product_urls,
                   prod_idx, cat_rows, rev_vars, cat_pages, crawls, rev_log,
                   returned>>

\* line 143: the page limit is reached
CatLoopEnd ==
    /\ pc = "cat_loop"
    /\ cat_page > category_pages
    /\ pc' = "cat_return"
    /\ UNCHANGED <<args, main_vars, multi_vars, cat_vars, rev_vars, net_vars,
                   cat_log, rev_log, returned, stack, exc>>

\* lines 146-148: the product URLs of the page; none ends the pagination
CatParse ==
    /\ pc = "cat_fetched"
    /\ product_urls' = parse_category_product_urls(cat_html, category_url)
    /\ cat_pages' = Append(cat_pages, product_urls')
    /\ response' = NoResponse
    /\ prod_idx' = 1
    /\ pc' = IF NoProducts(product_urls') THEN "cat_return" ELSE "prod_loop"
    /\ UNCHANGED <<args, main_vars, multi_vars, cat_page, cat_html, cat_rows,
                   rev_vars, calls, requests, content, cat_fetched, crawls,
                   rev_log, returned, stack, exc>>

\* lines 150-151, 104-105: the next product: scrape_jumia_reviews is called
ProdCall ==
    /\ pc = "prod_loop"
    /\ prod_idx <= Len(product_urls)
    /\ stack' = Append(stack, "scrape_jumia_reviews")
    /\ base_url' = normalize_url(product_url)
    /\ all_reviews' = << >> /\ page_reviews' = << >> /\ rev_html' = << >>
    /\ rev_page' = 1
    /\ rev_fetched' = << >> /\ rev_pages' = << >>
    /\ pc' = "rev_loop"
    /\ UNCHANGED <<args, main_vars, multi_vars, cat_vars, net_vars, cat_log,
                   returned, exc>>

\* lines 150, 158-159, 143: the products of the page are done
ProdLoopEnd ==
    /\ pc = "prod_loop"
    /\ prod_idx > Len(product_urls)
    /\ IF delay_seconds # 0
       THEN pc' = "cat_sleep" /\ cat_page' = cat_page
       ELSE pc' = "cat_loop" /\ cat_page' = cat_page + 1
    /\ UNCHANGED <<args, main_vars, multi_vars, cat_html, product_urls,
                   prod_idx, cat_rows, rev_vars, net_vars, cat_log, rev_log,
                   returned, stack, exc>>

\* line 159: time.sleep returns
CatSleep ==
    /\ pc = "cat_sleep"
    /\ cat_page' = cat_page + 1
    /\ pc' = "cat_loop"
    /\ UNCHANGED <<args, main_vars, multi_vars, cat_html, product_urls,
                   prod_idx, cat_rows, rev_vars, net_vars, cat_log, rev_log,
                   returned, stack, exc>>

\* lines 161, 169-170: the rows go back to scrape_multiple_categories
CatReturn ==
    /\ pc = "cat_return"
    /\ stack' = Front(stack)
    /\ multi_rows' = multi_rows \o cat_rows
    /\ returned' = Append(returned, [key |-> category_key, rows |-> cat_rows])
    /\ key_idx' = key_idx + 1
    /\ cat_page' = 1 /\ cat_html' = << >> /\ product_urls' = << >>
    /\ prod_idx' = 1 /\ cat_rows' = << >>
    /\ cat_fetched' = << >> /\ cat_pages' = << >> /\ crawls' = << >>
    /\ pc' = "multi_loop"
    /\ UNCHANGED <<args, main_vars, rev_vars, net_vars, rev_log, exc>>

(* ---------------------------- scrape_jumia_reviews --------------------- *)

\* lines 107-109: one more review page is fetched
RevFetch ==
    /\ pc = "rev_loop"
    /\ rev_page <= review_pages
    /\ \E o \in Outcomes(Documents(EmptyReviewPages, ContentReviewPages)) :
        /\ response' = o
        /\ calls' = calls + 1
        /\ requests' = requests + 1
        /\ content' = IF o.text \in ContentReviewPages THEN content + 1
                      ELSE content
        /\ exc' = fetch_page(o).raises
        /\ IF exc' # "none"
           THEN /\ stack' = Append(stack, "fetch_page")
                /\ pc' = "raising"
                /\ rev_html' = rev_html
           ELSE /\ stack' = stack
                /\ pc' = "rev_fetched"
                /\ rev_html' = fetch_page(o).text
    /\ rev_fetched' = Append(rev_fetched, rev_page)
    /\ UNCHANGED <<args, main_vars, multi_vars, cat_vars, base_url, rev_page,
                   page_reviews, all_reviews, cat_log, rev_pages, returned>>

\* line 107: the page limit is reached
RevLoopEnd ==
    /\ pc = "rev_loop"
    /\ rev_page > review_pages
    /\ pc' = "rev_return"
    /\ UNCHANGED <<args, main_vars, multi_vars, cat_vars, rev_vars, net_vars,
                   cat_log, rev_log, returned, stack, exc>>

\* lines 110-115: the reviews of the page; none ends the pagination
RevParse ==
    /\ pc = "rev_fetched"
    /\ page_reviews' = parse_reviews(rev_html)
    /\ rev_pages' = Append(rev_pages, page_reviews')
    /\ response' = NoResponse
    /\ IF NoReviews(page_reviews')
       THEN /\ pc' = "rev_return"
            /\ UNCHANGED <<all_reviews, rev_page>>
       ELSE /\ all_reviews' = all_reviews \o page_reviews'
            /\ IF delay_seconds # 0 /\ rev_page < review_pages
               THEN pc' = "rev_sleep" /\ rev_page' = rev_page
               ELSE pc' = "rev_loop" /\ rev_page' = rev_page + 1
    /\ UNCHANGED <<args, main_vars, multi_vars, cat_vars, base_url, rev_html,
                   calls, requests, content, cat_log, rev_fetched, returned,
                   stack, exc>>

\* line 115: time.sleep returns
RevSleep ==
    /\ pc = "rev_sleep"
    /\ rev_page' = rev_page + 1
    /\ pc' = "rev_loop"
    /\ UNCHANGED <<args, main_vars, multi_vars, cat_vars, base_url, rev_html,
                   page_reviews, all_reviews, net_vars, cat_log, rev_log,
                   returned, stack, exc>>

\* lines 117, 151-156: the reviews go back to scrape_category and are tagged
RevReturn ==
    /\ pc = "rev_return"
    /\ stack' = Front(stack)
    /\ cat_rows' = cat_rows \o
           [i \in 1..Len(all_reviews) |->
               TagRow(all_reviews[i], category_key, product_url)]
    /\ crawls' = Append(crawls, [product_url |-> product_url,
                                 base_url |-> base_url,
                                 reviews |-> all_reviews])
    /\ prod_idx' = prod_idx + 1
    /\ base_url' = EmptyRef /\ rev_page' = 1 /\ rev_html' = << >>
    /\ page_reviews' = << >> /\ all_reviews' = << >>
    /\ rev_fetched' = << >> /\ rev_pages' = << >>
    /\ pc' = "prod_loop"
    /\ UNCHANGED <<args, main_vars, multi_vars, cat_page, cat_html,
                   product_urls, net_vars, cat_fetched, cat_pages, returned,
                   exc>>

(* ---------------------------- specification ---------------------------- *)

Next ==
    \/ MainCall \/ PrintCount \/ Save \/ PrintSaved
    \/ MultiSkip \/ MultiCall \/ MultiReturn
    \/ CatFetch \/ CatLoopEnd \/ CatParse \/ ProdCall \/ ProdLoopEnd
    \/ CatSleep \/ CatReturn
    \/ RevFetch \/ RevLoopEnd \/ RevParse \/ RevSleep \/ RevReturn
    \/ Propagate

Spec == Init /\ [][Next]_vars

(* ---------------------------- properties ------------------------------- *)

Last(s) == s[Len(s)]
Count(n) == [i \in 1..n |-> i]
Known(key) == key \in DOMAIN CATEGORY_URLS
Status4xx5xx(r) == r.kind = "response" /\ r.status \in 400..599

\* C1: scrape_jumia_reviews fetches the pages 1, 2, ... in order and never
\* more than the page limit; it accumulates the reviews of the pages in page
\* order; no page is fetched after a page without reviews; and it returns
\* the reviews of the pages before the first page without reviews, or of all
\* the pages up to the limit when every one of them has reviews.
C1_PaginationStopsAtFirstEmptyPage ==
    LET n == Len(rev_pages)
    IN  /\ rev_fetched = Count(Len(rev_fetched))
        /\ Len(rev_fetched) <= review_pages
        /\ n <= Len(rev_fetched) /\ Len(rev_fetched) <= n + 1
        /\ \A k \in 1..(n - 1) : rev_pages[k] # << >>
        /\ n > 0 /\ Last(rev_pages) = << >> => Len(rev_fetched) = n
        /\ pc = "rev_return" =>
            /\ Len(rev_fetched) = n
            /\ IF n > 0 /\ Last(rev_pages) = << >>
               THEN all_reviews = Flatten(SubSeq(rev_pages, 1, n - 1))
               ELSE n = review_pages /\ all_reviews = Flatten(rev_pages)

\* a crawl that returns the reviews of page 1 because page 2 has none, with
\* a page limit above 2
C1_Witness ==
    /\ pc = "rev_return"
    /\ review_pages > 2
    /\ Len(rev_pages) = 2
    /\ rev_pages[1] # << >> /\ rev_pages[2] = << >>
    /\ all_reviews = rev_pages[1]

RowOf(r, key, url) ==
    [title |-> r.title, rating |-> r.rating, body |-> r.body,
     author |-> r.author, date |-> r.date, category |-> key,
     product_url |-> url]

\* C2: the rows of scrape_category are, crawl after crawl, the reviews each
\* product crawl returned, in the order returned, each with the category key
\* and with the product URL the crawl was called with; the crawls follow the
\* listing pages and, within a page, the extraction order of its products;
\* and every row a category call returned carries the key of that call.
C2_RowsCarryCategoryAndProductUrl ==
    /\ cat_rows = Flatten([i \in 1..Len(crawls) |->
                     [j \in 1..Len(crawls[i].reviews) |->
                         RowOf(crawls[i].reviews[j], category_key,
                               crawls[i].product_url)]])
    /\ [i \in 1..Len(crawls) |-> crawls[i].product_url]
           = SubSeq(Flatten(cat_pages), 1, Len(crawls))
    /\ \A i \in 1..Len(crawls) :
           crawls[i].base_url = normalize_url(crawls[i].product_url)
    /\ pc = "cat_return" => Len(crawls) = Len(Flatten(cat_pages))
    /\ \A i \in 1..Len(returned) : \A j \in 1..Len(returned[i].rows) :
           returned[i].rows[j].category = returned[i].key

\* one listing page with two product links, each product with one review on
\* page 1 and none on page 2: two rows with the right tags
C2_Witness ==
    /\ pc = "cat_return"
    /\ category_pages = 1 /\ review_pages = 2
    /\ Len(cat_pages) = 1 /\ cat_pages[1] = <<P1, P2>>
    /\ Len(crawls) = 2
    /\ Len(crawls[1].reviews) = 1 /\ Len(crawls[2].reviews) = 1
    /\ Len(cat_rows) = 2
    /\ cat_rows[1].category = category_key /\ cat_rows[1].product_url = P1
    /\ cat_rows[2].category = category_key /\ cat_rows[2].product_url = P2

\* C3: scrape_category sleeps only with a non-zero delay, only when all the
\* products of the listing page have been crawled, and only when another
\* listing page remains to be fetched.
C3_CategorySleepOnlyBetweenPages ==
    pc = "cat_sleep" =>
        /\ delay_seconds # 0
        /\ prod_idx > Len(product_urls)
        /\ cat_page < category_pages

\* the category sleep after the products of the last listing page
C3_SleepAfterLastPage ==
    /\ pc = "cat_sleep"
    /\ cat_page = category_pages

Failed(r) == r.kind = "transport" \/ Status4xx5xx(r)

\* C4: a fetch that fails raises an exception, and from then on the run
\* only ends: the exception is never cleared, control never goes back to
\* any function, no request is made, nothing is printed, and the output
\* path, which was never opened for writing, stays as it is.
C4_FetchFailureAbortsRun ==
    [][ /\ (pc \in {"cat_loop", "rev_loop"} /\ Failed(response'))
            => exc' # "none"
        /\ exc # "none" =>
            /\ exc' = exc
            /\ pc \in {"raising", "crashed"} /\ pc' = "crashed"
            /\ requests' = requests /\ calls' = calls
            /\ stdout = << >> /\ stdout' = << >>
            /\ file.opens = 0 /\ file' = file /\ file0' = file0
      ]_vars

\* a run that ends with a traceback at a review page of the second
\* category, with the rows of the first category accumulated
C4_Witness ==
    /\ pc = "crashed"
    /\ stack = << >>
    /\ multi_rows # << >>
    /\ Len(returned) = 1
    /\ rev_fetched # << >>
    /\ Failed(response)
    /\ file.opens = 0

\* C5: after save_reviews_to_csv, the output path is as the call found it
\* when there is no record; otherwise it holds the header row with the
\* columns category, product_url, title, rating, body, author, date and one
\* row per record, in the order of the records.
C5_SaveWritesOnlyRecords ==
    pc \in {"print_saved", "done"} =>
        IF reviews = << >>
        THEN file = file0
        ELSE /\ file.exists
             /\ file.opens = 1
             /\ Len(file.rows) = Len(reviews) + 1
             /\ file.rows[1] = <<"category", "product_url", "title", "rating",
                                 "body", "author", "date">>
             /\ \A i \in 1..Len(reviews) :
                    file.rows[i + 1] =
                        <<reviews[i].category, reviews[i].product_url,
                          reviews[i].title, reviews[i].rating,
                          reviews[i].body, reviews[i].author,
                          reviews[i].date>>

\* the call with no record found a file and left it alone
C5_Witness ==
    /\ pc = "print_saved"
    /\ reviews = << >>
    /\ file0 = OldFile
    /\ file = OldFile

KnownKeys(keys) == SelectSeq(keys, Known)

ReturnedKeys == [i \in 1..Len(returned) |-> returned[i].key]

\* scrape_category runs for registered keys only, was called for the
\* registered keys met so far in list order, and the rows so far are the
\* rows these calls returned, call after call
KeysInOrder ==
    /\ "scrape_category" \in Range(stack) => Known(category_key)
    /\ ReturnedKeys = KnownKeys(SubSeq(categories, 1, key_idx - 1))
    /\ multi_rows = Flatten([i \in 1..Len(returned) |-> returned[i].rows])
    /\ pc \in {"print_count", "save", "print_saved", "done"} =>
        /\ reviews = multi_rows
        /\ ReturnedKeys = KnownKeys(categories)

Total(lens) == Len(Flatten([i \in 1..Len(lens) |-> [j \in 1..lens[i] |-> j]]))

\* C7: in scrape_category no listing page is fetched or parsed after a
\* listing page without product URLs, and no product crawl is started after
\* it: the function goes straight to its return, with the rows of the
\* crawls of the earlier pages.
C7_CategoryStopsAtFirstEmptyListing ==
    LET n == Len(cat_pages)
    IN  /\ cat_fetched = Count(Len(cat_fetched))
        /\ Len(cat_fetched) <= category_pages
        /\ \A k \in 1..(n - 1) : cat_pages[k] # << >>
        /\ (n > 0 /\ Last(cat_pages) = << >>) =>
            /\ Len(cat_fetched) = n
            /\ pc = "cat_return"
            /\ Len(crawls) = Len(Flatten(SubSeq(cat_pages, 1, n - 1)))
            /\ Len(cat_rows)
                 = Total([i \in 1..Len(crawls) |-> Len(crawls[i].reviews)])

\* the second listing page has no product URL, the limit is above 2, and
\* the rows of the first page are about to be returned
C7_Witness ==
    /\ pc = "cat_return"
    /\ category_pages > 2
    /\ Len(cat_pages) = 2
    /\ cat_pages[1] # << >> /\ cat_pages[2] = << >>
    /\ cat_rows # << >>

RawUrls == LinkUrls(ProductLinks(cat_html), category_url)

FirstAt(url, urls) == CHOOSE i \in DOMAIN urls :
    urls[i] = url /\ \A j \in 1..(i - 1) : urls[j] # url

\* C8: the product URLs of a listing page are normalized (no query, no
\* fragment), no URL occurs twice, the URLs are exactly those of the
\* matched anchors that have a non-empty href, and they stand in the order
\* of their first occurrence; URLs crawled on earlier pages are not left out.
C8_ProductUrlsDeduplicatedPerPage ==
    (cat_pages # << >> /\ pc # "cat_fetched") =>
        /\ product_urls = Last(cat_pages)
        /\ \A i \in DOMAIN product_urls :
               product_urls[i].query = "" /\ product_urls[i].fragment = ""
        /\ \A i, j \in DOMAIN product_urls :
               i # j => product_urls[i] # product_urls[j]
        /\ Range(product_urls) = Range(RawUrls)
        /\ Range(product_urls) =
               {normalize_url(urljoin(category_url, a.href)) :
                   a \in {x \in Range(ProductLinks(cat_html)) :
                             x.has_href /\ x.href # EmptyRef}}
        /\ \A i, j \in DOMAIN product_urls :
               i < j => FirstAt(product_urls[i], RawUrls)
                            < FirstAt(product_urls[j], RawUrls)

\* a listing page with a repeated link and a link without href, whose
\* product URLs were all crawled on the page before
C8_Witness ==
    /\ pc = "prod_loop"
    /\ Len(cat_pages) = 2
    /\ Len(RawUrls) > Len(product_urls)
    /\ Len(RawUrls) < Len(ProductLinks(cat_html))
    /\ Len(product_urls) = 2
    /\ Range(product_urls) \subseteq Range(cat_pages[1])
    /\ \A u \in Range(product_urls) :
           \E i \in DOMAIN crawls : crawls[i].product_url = u

Printed(what) == \E i \in DOMAIN stdout : stdout[i][1] = what

\* C9: main prints the record count before it calls save_reviews_to_csv,
\* and it prints the confirmation only when the output file has been
\* written.
C9_ConfirmationOnlyAfterWrite ==
    /\ pc \in {"save", "print_saved", "done"} =>
           stdout # << >> /\ stdout[1] = <<"Fetched", Len(reviews)>>
    /\ file.opens > 0 => Printed("Fetched")
    /\ Printed("Saved") => file.opens > 0

\* the confirmation printed in a run that wrote nothing
C9_SavedPrintedWithoutWrite ==
    /\ pc = "done"
    /\ Printed("Saved")
    /\ file.opens = 0

Returned == pc \in {"cat_fetched", "rev_fetched"}
Raised == pc = "raising" /\ Top(stack) = "fetch_page"

====
